---- MODULE Spec2Model ----
(***************************************************************************)
(* stack-sniffer: concurrent probing of one target with several client    *)
(* identities, redirect reconciliation, header fingerprinting and         *)
(* same-origin link extraction (src/stack-sniffer.py).                    *)
(*                                                                         *)
(* Strings are sequences of tokens.  A token is one of the delimiter      *)
(* characters ":", "/", "#" or a word, a maximal run of characters that   *)
(* holds no delimiter.  Every string operation the program uses (rstrip,  *)
(* startswith, concatenation, urlparse, urljoin, geturl) only looks at    *)
(* delimiters and at whole words, so it is computed on tokens exactly as  *)
(* the library computes it on characters.  The characters "?" and ";"     *)
(* occur in no modelled input, so queries and params are always empty.    *)
(***************************************************************************)
EXTENDS Integers, Sequences, FiniteSets, TLC

(***************************************************************************)
(* Strings                                                                 *)
(***************************************************************************)

Delims == {":", "/", "#"}

\* words that hold a character outside urllib's scheme_chars
NonSchemeWords == {"admin@example.com", "void(0)"}

\* urllib.parse.uses_relative and uses_netloc, restricted to the schemes used
uses_relative == {<<>>, <<"http">>, <<"https">>, <<"ftp">>}
uses_netloc   == {<<>>, <<"http">>, <<"https">>, <<"ftp">>}

\* a strip that cuts the last character off, slash or not
RStripLast(s) == IF s = <<>> THEN s ELSE SubSeq(s, 1, Len(s) - 1)

\* str.rstrip('/')
RECURSIVE RStripSlash(_)
RStripSlash(s) ==
    IF s # <<>> /\ s[Len(s)] = "/"
    THEN RStripSlash(SubSeq(s, 1, Len(s) - 1))
    ELSE s

\* str.startswith(prefix)
StartsWith(s, prefix) ==
    /\ Len(s) >= Len(prefix)
    /\ SubSeq(s, 1, Len(prefix)) = prefix

\* str.find over a set of characters: the first index holding one of them, 0 if none
FindFirst(s, chars) ==
    IF \E i \in 1..Len(s) : s[i] \in chars
    THEN CHOOSE i \in 1..Len(s) :
             /\ s[i] \in chars
             /\ \A j \in 1..(i - 1) : s[j] \notin chars
    ELSE 0

\* s[i:] of Python, with the model's 1-based i
From(s, i) == SubSeq(s, i, Len(s))

\* str.split('/'): the segments between the slashes, empty ones included
RECURSIVE SplitSlash(_)
SplitSlash(s) ==
    IF FindFirst(s, {"/"}) = 0
    THEN <<s>>
    ELSE <<SubSeq(s, 1, FindFirst(s, {"/"}) - 1)>>
         \o SplitSlash(From(s, FindFirst(s, {"/"}) + 1))

\* '/'.join(segments)
RECURSIVE JoinSlash(_)
JoinSlash(segs) ==
    IF segs = <<>> THEN <<>>
    ELSE IF Len(segs) = 1 THEN segs[1]
    ELSE segs[1] \o <<"/">> \o JoinSlash(Tail(segs))

\* filter(None, segments): drop the empty segments
RECURSIVE FilterEmpty(_)
FilterEmpty(segs) ==
    IF segs = <<>> THEN <<>>
    ELSE IF segs[1] = <<>> THEN FilterEmpty(Tail(segs))
    ELSE <<segs[1]>> \o FilterEmpty(Tail(segs))

(***************************************************************************)
(* urllib.parse, as called by UrlSniffer                                   *)
(***************************************************************************)

\* urlsplit's scheme test: a ':' right after one leading word of scheme characters
HasScheme(url) ==
    /\ Len(url) >= 2
    /\ url[2] = ":"
    /\ url[1] \notin Delims
    /\ url[1] \notin NonSchemeWords

\* urlsplit's last step: the fragment is what follows the first '#' (at h)
SplitFragment(scheme, netloc, rest, h) ==
    [scheme   |-> scheme,
     netloc   |-> netloc,
     path     |-> IF h = 0 THEN rest ELSE SubSeq(rest, 1, h - 1),
     fragment |-> IF h = 0 THEN <<>> ELSE From(rest, h + 1)]

\* _splitnetloc: the netloc ends before the first '/' or '#' (at d)
SplitNetloc(scheme, after, d) ==
    IF d = 0
    THEN SplitFragment(scheme, after, <<>>, 0)
    ELSE SplitFragment(scheme, SubSeq(after, 1, d - 1), From(after, d),
                       FindFirst(From(after, d), {"#"}))

\* urlsplit once the scheme is cut off: a leading '//' opens the netloc
SplitRest(scheme, rest) ==
    IF StartsWith(rest, <<"/", "/">>)
    THEN SplitNetloc(scheme, From(rest, 3), FindFirst(From(rest, 3), {"/", "#"}))
    ELSE SplitFragment(scheme, <<>>, rest, FindFirst(rest, {"#"}))

\* urlparse(url, scheme): scheme, netloc, path and fragment of url
urlparse(url, default) ==
    IF HasScheme(url)
    THEN SplitRest(<<url[1]>>, From(url, 3))
    ELSE SplitRest(default, url)

\* urlunsplit: '//' and the netloc go before the path
UnsplitNetloc(p) ==
    IF p.netloc # <<>>
       \/ (p.scheme # <<>> /\ p.scheme \in uses_netloc
           /\ ~StartsWith(p.path, <<"/", "/">>))
    THEN <<"/", "/">> \o p.netloc
         \o (IF p.path # <<>> /\ p.path[1] # "/" THEN <<"/">> ELSE <<>>)
         \o p.path
    ELSE p.path

\* ParseResult.geturl() / urlunparse
geturl(p) ==
    (IF p.scheme # <<>> THEN p.scheme \o <<":">> ELSE <<>>)
    \o UnsplitNetloc(p)
    \o (IF p.fragment # <<>> THEN <<"#">> \o p.fragment ELSE <<>>)

\* urljoin's loop over the segments: '.' is skipped, '..' pops
RECURSIVE ResolveDots(_, _)
ResolveDots(segs, acc) ==
    IF segs = <<>> THEN acc
    ELSE IF segs[1] = <<"..">>
         THEN ResolveDots(Tail(segs),
                          IF acc = <<>> THEN acc ELSE SubSeq(acc, 1, Len(acc) - 1))
    ELSE IF segs[1] = <<".">> THEN ResolveDots(Tail(segs), acc)
    ELSE ResolveDots(Tail(segs), Append(acc, segs[1]))

\* urljoin: the base path's last segment is dropped unless it is empty
BaseParts(parts) ==
    IF parts[Len(parts)] # <<>> THEN SubSeq(parts, 1, Len(parts) - 1) ELSE parts

\* urljoin: segments[1:-1] = filter(None, segments[1:-1])
Squeeze(segs) ==
    IF Len(segs) <= 2 THEN segs
    ELSE <<segs[1]>> \o FilterEmpty(SubSeq(segs, 2, Len(segs) - 1))
         \o <<segs[Len(segs)]>>

\* urljoin: the segments to resolve, for a non-empty path
Segments(bpath, path) ==
    IF path[1] = "/" THEN SplitSlash(path)
    ELSE Squeeze(BaseParts(SplitSlash(bpath)) \o SplitSlash(path))

\* urljoin: resolved_path, with '' appended after a last '.' or '..'
Resolved(segs) ==
    IF segs[Len(segs)] \in {<<".">>, <<"..">>}
    THEN Append(ResolveDots(segs, <<>>), <<>>)
    ELSE ResolveDots(segs, <<>>)

\* '/'.join(resolved_path) or '/'
OrRoot(path) == IF path = <<>> THEN <<"/">> ELSE path

\* urljoin once both urls are parsed
JoinParsed(url, b, u) ==
    IF u.scheme # b.scheme \/ u.scheme \notin uses_relative THEN url
    ELSE IF u.scheme \in uses_netloc /\ u.netloc # <<>> THEN geturl(u)
    ELSE IF u.path = <<>>
         THEN geturl([scheme |-> u.scheme, netloc |-> b.netloc,
                      path |-> b.path, fragment |-> u.fragment])
    ELSE geturl([scheme |-> u.scheme, netloc |-> b.netloc,
                 path |-> OrRoot(JoinSlash(Resolved(Segments(b.path, u.path)))),
                 fragment |-> u.fragment])

\* urljoin(base, url)
urljoin(base, url) ==
    IF base = <<>> THEN url
    ELSE IF url = <<>> THEN base
    ELSE JoinParsed(url, urlparse(base, <<>>),
                    urlparse(url, urlparse(base, <<>>).scheme))

(***************************************************************************)
(* Inputs: the command line and the pages the transport may answer with    *)
(***************************************************************************)

\* how many of TargetUrls the --url argument ranges over
MaxTarget == 3

\* how many of CannedResponses the transport may answer with
MaxCanned == 5

\* values of the --url argument
TargetUrls ==
    << <<"example.com">>,
       <<"http", ":", "/", "/", "example.com", "/">>,
       <<"http", ":", "/", "/", "example.com", "/", "home">>,
       <<"https", ":", "/", "/", "example.com">> >>

Targets == 1..(IF MaxTarget < Len(TargetUrls) THEN MaxTarget ELSE Len(TargetUrls))

UrlRoot  == <<"http", ":", "/", "/", "example.com", "/">>
UrlHome  == <<"http", ":", "/", "/", "example.com", "/", "home">>
UrlOther == <<"http", ":", "/", "/", "other.com", "/">>

\* what one requests.get may return: final URL, status, headers as received
\* (name, value) and the elements of the parsed body in document order
CannedResponses ==
    << [url |-> UrlRoot, status_code |-> 200,
        headers |-> << <<"Server", "nginx">>, <<"Set-Cookie", "sid=1">> >>,
        body |-> << [tag |-> "a", attrs |-> [href |-> <<"/", "about">>]],
                    [tag |-> "a",
                     attrs |-> [href |-> <<"https", ":", "/", "/", "other.com", "/", "x">>]] >>],
       [url |-> UrlRoot, status_code |-> 200,
        headers |-> << <<"server", "apache">>, <<"X-Powered-By", "PHP">> >>,
        body |-> << [tag |-> "a", attrs |-> [href |-> <<"/">>]],
                    [tag |-> "a", attrs |-> [href |-> <<"#", "top">>]],
                    [tag |-> "a", attrs |-> [class |-> <<"menu">>]],
                    [tag |-> "img", attrs |-> [src |-> <<"/", "logo.png", "#", "v">>]] >>],
       [url |-> UrlHome, status_code |-> 200,
        headers |-> << <<"Content-Type", "text/html">>, <<"X-Runtime", "0.1">> >>,
        body |-> << [tag |-> "a",
                     attrs |-> [href |-> <<"mailto", ":", "admin@example.com">>]],
                    [tag |-> "div", attrs |-> [href |-> <<"/", "hidden">>]],
                    [tag |-> "form", attrs |-> [action |-> <<>>]],
                    [tag |-> "script", attrs |-> [src |-> <<"lib", "/", "app.js", "/">>]],
                    [tag |-> "a", attrs |-> [href |-> <<"/">>]] >>],
       [url |-> UrlRoot, status_code |-> 301,
        headers |-> << <<"Location", "http://example.com/home">> >>,
        body |-> << >>],
       [url |-> UrlRoot, status_code |-> 404,
        headers |-> << <<"Server", "nginx">> >>,
        body |-> << [tag |-> "a", attrs |-> [href |-> <<"/", "notfound">>]] >>],
       [url |-> UrlOther, status_code |-> 200,
        headers |-> << <<"X-Generator", "Hugo">> >>,
        body |-> << [tag |-> "a", attrs |-> [href |-> <<"/", "x", "#", "y">>]] >>] >>

Canned == 1..(IF MaxCanned < Len(CannedResponses) THEN MaxCanned ELSE Len(CannedResponses))

(***************************************************************************)
(* Program constants                                                       *)
(***************************************************************************)

\* StackSniffer.USER_AGENTS: one worker thread per entry
USER_AGENTS ==
    << "curl/7.81.0", "python-requests/2.31.0",
       "Mozilla/5.0 (Windows NT 10.0; Win64; x64) AppleWebKit/537.36" >>

Workers == 1..Len(USER_AGENTS)

HEADERS_TO_CHECK ==
    << "Server", "X-Powered-By", "X-Generator", "Last-Modified", "X-AspNet-Version",
       "X-AspNetMvc-Version", "X-Runtime", "X-Frame-Options", "Location" >>

\* the dict in its insertion order, as <<tag, attribute>>
TAGS_AND_ATTRIBUTES ==
    << <<"a", "href">>,      <<"img", "src">>,    <<"link", "href">>,
       <<"form", "action">>, <<"area", "href">>,  <<"base", "href">>,
       <<"embed", "src">>,   <<"frame", "src">>,  <<"script", "src">>,
       <<"iframe", "src">>,  <<"source", "src">> >>

\* the value of a field that holds None; no modelled url is the empty string
None == << >>

\* Data._lock when no thread holds it
Free == 0

(***************************************************************************)
(* Data                                                                    *)
(***************************************************************************)

\* the setter without its rstrip
BaseUrlSetterUnstripped(known, new_url) ==
    [base_url   |-> new_url,
     known_urls |-> known \cup {new_url}]

\* the base_url setter: both fields it writes
BaseUrlSetter(known, new_url) ==
    [base_url   |-> RStripSlash(new_url),
     known_urls |-> known \cup {RStripSlash(new_url)}]

\* the append written as an assignment
AppendResponseAssigns(rs, response) == <<response>>

\* the list after Data.add_response's append
AppendResponse(rs, response) == Append(rs, response)

\* add_url that records the url as known before it tests for it
add_url_known_first(st, new_url) ==
    [urls       |-> st.urls,
     known_urls |-> st.known_urls \cup {RStripSlash(new_url)}]

\* an add_url without the test against known_urls
add_url_untested(st, new_url) ==
    [urls       |-> st.urls \cup {RStripSlash(new_url)},
     known_urls |-> st.known_urls \cup {RStripSlash(new_url)}]

\* Data.add_url: the frontier and the known set after the call
add_url(st, new_url) ==
    IF RStripSlash(new_url) \in st.known_urls
    THEN st
    ELSE [urls       |-> st.urls \cup {RStripSlash(new_url)},
          known_urls |-> st.known_urls \cup {RStripSlash(new_url)}]

(***************************************************************************)
(* StackSniffer                                                            *)
(***************************************************************************)

\* analyze(): the calls it makes, in the order it makes them
analyze ==
    << "parse_args", "validate_url", "create_threads", "update_base_url",
       "analyze_headers", "analyze_htmls", "display_results" >>

\* analyze() with _analyze_htmls called right after the dispatch
AfterLinksFirst(stage) ==
    CASE stage = "parse_args"      -> "validate_url"
      [] stage = "validate_url"    -> "create_threads"
      [] stage = "create_threads"  -> "analyze_htmls"
      [] stage = "analyze_htmls"   -> "update_base_url"
      [] stage = "update_base_url" -> "analyze_headers"
      [] stage = "analyze_headers" -> "display_results"
      [] OTHER                     -> "done"

\* the call analyze() makes once the call named stage has returned
After(stage) ==
    IF \E i \in 1..(Len(analyze) - 1) : analyze[i] = stage
    THEN analyze[(CHOOSE i \in 1..(Len(analyze) - 1) : analyze[i] = stage) + 1]
    ELSE "done"

\* _validate_url's test: the url already names its scheme
HasHttpScheme(url) ==
    \/ StartsWith(url, <<"http", ":", "/", "/">>)
    \/ StartsWith(url, <<"https", ":", "/", "/">>)

\* raise_for_status raising for server errors only
RaisesForServerError(status_code) == 500 <= status_code /\ status_code < 600

\* get(..., allow_redirects=True) follows a 3xx answer that names a Location,
\* so such an answer is never the one it returns
Followed(allow_redirects, response) ==
    /\ allow_redirects
    /\ 300 <= response.status_code /\ response.status_code < 400
    /\ \E i \in 1..Len(response.headers) : response.headers[i][1] = "Location"

\* Response.raise_for_status raises HTTPError
RaisesForStatus(status_code) == 400 <= status_code /\ status_code < 600

\* a join that returns as soon as the thread has been started
JoinedOnceStarted(state) == state # "unborn"

\* a join that gives up on a thread blocked on the lock
JoinedOrBlocked(state) == state \in {"done", "acquire"}

\* Thread.join returns: the thread has run to its end
Joined(state) == state = "done"

\* the test with the flag inverted
RedirectOffInverted(flag) == flag

\* _update_base_url's first test: nothing to do
RedirectOff(flag) == ~flag

\* the set built by _update_base_url's loop
FinalUrls(rs) == {rs[i].url : i \in 1..Len(rs)}

\* the test off by one
ConflictOffByOne(found) == Cardinality(found) > 2

\* _update_base_url's test before _abort
Conflict(found) == Cardinality(found) > 1

(***************************************************************************)
(* HeaderSniffer                                                           *)
(***************************************************************************)

\* str.lower on the header names in use (requests keeps headers in a
\* CaseInsensitiveDict, keyed by the lowered name)
Lower(name) ==
    CASE name = "Server"              -> "server"
      [] name = "X-Powered-By"        -> "x-powered-by"
      [] name = "X-Generator"         -> "x-generator"
      [] name = "Last-Modified"       -> "last-modified"
      [] name = "X-AspNet-Version"    -> "x-aspnet-version"
      [] name = "X-AspNetMvc-Version" -> "x-aspnetmvc-version"
      [] name = "X-Runtime"           -> "x-runtime"
      [] name = "X-Frame-Options"     -> "x-frame-options"
      [] name = "Location"            -> "location"
      [] name = "Set-Cookie"          -> "set-cookie"
      [] name = "Content-Type"        -> "content-type"
      [] OTHER                        -> name

\* header in response.headers
HasHeader(headers, header) ==
    \E i \in 1..Len(headers) : Lower(headers[i][1]) = Lower(header)

\* response.headers[header]: the value received last under that name
HeaderValue(headers, header) ==
    headers[CHOOSE k \in 1..Len(headers) :
                /\ Lower(headers[k][1]) = Lower(header)
                /\ \A j \in (k + 1)..Len(headers) :
                       Lower(headers[j][1]) # Lower(header)][2]

\* info[key] = value
SetItem(d, key, value) ==
    [k \in DOMAIN d \cup {key} |-> IF k = key THEN value ELSE d[k]]

\* every header of the response, whatever its name
HeaderKeysUnfiltered(response) ==
    {response.headers[i][1] : i \in 1..Len(response.headers)}

\* the keys _analyze_header writes for one response
HeaderKeys(response) ==
    {HEADERS_TO_CHECK[i] : i \in {k \in 1..Len(HEADERS_TO_CHECK) :
                                      HasHeader(response.headers, HEADERS_TO_CHECK[k])}}

\* HeaderSniffer._analyze_header
_analyze_header(d, response) ==
    [k \in DOMAIN d \cup HeaderKeys(response) |->
        IF k \in HeaderKeys(response) THEN HeaderValue(response.headers, k)
        ELSE d[k]]

\* one pass of HeaderSniffer.__enter__'s loop
HeaderPass(d, response) ==
    _analyze_header(SetItem(d, "status_code", response.status_code), response)

(***************************************************************************)
(* UrlSniffer                                                              *)
(***************************************************************************)

\* a pop that hands out the first item but drops the last
PopWrongEnd(rs) == [item |-> rs[1], rest |-> SubSeq(rs, 1, Len(rs) - 1)]

\* list.pop(): the last item and the list without it
Pop(rs) == [item |-> rs[Len(rs)], rest |-> SubSeq(rs, 1, Len(rs) - 1)]

\* find_all that hands out every element, whatever its tag
FindAllElements(body, tag) == body

\* soup.find_all(tag), in document order
FindAll(body, tag) == SelectSeq(body, LAMBDA e : e.tag = tag)

\* element.get(attribute), None when the element has no such attribute
Get(element, attribute) ==
    IF attribute \in DOMAIN element.attrs THEN element.attrs[attribute] ELSE None

\* the values of valor that pass "if not valor: continue" for one tag
RECURSIVE ValuesOf(_, _)
ValuesOf(elements, attribute) ==
    IF elements = <<>> THEN <<>>
    ELSE (IF Get(elements[1], attribute) = None THEN <<>>
          ELSE <<Get(elements[1], attribute)>>)
         \o ValuesOf(Tail(elements), attribute)

\* the values of valor over the whole double loop, in the order met
RECURSIVE Valores(_, _)
Valores(body, table) ==
    IF table = <<>> THEN <<>>
    ELSE ValuesOf(FindAll(body, table[1][1]), table[1][2])
         \o Valores(body, Tail(table))

\* "if parsed.netloc and parsed.netloc != self._netloc: continue"
Foreign(parsed, netloc) == parsed.netloc # <<>> /\ parsed.netloc # netloc

\* parsed._replace(fragment='').geturl()
CleanUrl(parsed) == geturl([parsed EXCEPT !.fragment = <<>>])

\* the loop body of _find_url_in_html from urljoin on, for one valor
VisitParsed(st, netloc, parsed) ==
    IF Foreign(parsed, netloc) THEN st
    ELSE add_url(st, CleanUrl(parsed))

\* the loop body of _find_url_in_html for one valor
Visit(st, base, netloc, valor) ==
    VisitParsed(st, netloc, urlparse(urljoin(base, valor), <<>>))

RECURSIVE VisitAll(_, _, _, _)
VisitAll(st, base, netloc, valores) ==
    IF valores = <<>> THEN st
    ELSE VisitAll(Visit(st, base, netloc, valores[1]), base, netloc, Tail(valores))

\* UrlSniffer._find_url_in_html on one parsed body
_find_url_in_html(st, base, netloc, body) ==
    VisitAll(st, base, netloc, Valores(body, TAGS_AND_ATTRIBUTES))

(***************************************************************************)
(* State                                                                   *)
(***************************************************************************)

VARIABLES
    pc,           \* the statement of analyze() the main thread is at
    halt,         \* the exception that ended the main thread, "none" while it runs
    base_url,     \* Data._base_url
    redirect,     \* Data.redirect (None before _parse_args, which is falsy)
    responses,    \* Data.responses
    urls,         \* Data.urls
    known_urls,   \* Data.known_urls
    info,         \* Data.info
    lock,         \* Data._lock: Free or the worker that holds it
    threads,      \* length of the list threads in _create_threads_for_requests
    joined,       \* how many of them the second loop has joined
    wpc,          \* per worker: where it is in _make_request
    wresp,        \* per worker: its local variable response
    cursor,       \* HeaderSniffer.__enter__: index of the for loop's iterator
    netloc,       \* UrlSniffer._netloc
    header_seen,  \* history: the responses HeaderSniffer's loop body has run on
    link_seen,    \* history: the responses UrlSniffer's loop body has run on
    assigned      \* history: the values _base_url has been given, in order

vars == <<pc, halt, base_url, redirect, responses, urls, known_urls, info, lock,
          threads, joined, wpc, wresp, cursor, netloc, header_seen, link_seen,
          assigned>>

data     == <<base_url, known_urls, assigned, redirect, responses, urls, info>>
workers  == <<lock, wpc, wresp>>
dispatch == <<threads, joined>>
stages   == <<cursor, netloc, header_seen, link_seen>>

Init ==
    /\ pc = "parse_args"
    /\ halt = "none"
    /\ base_url = None
    /\ redirect = FALSE
    /\ responses = << >>
    /\ urls = {}
    /\ known_urls = {}
    /\ info = << >>
    /\ lock = Free
    /\ threads = 0
    /\ joined = 0
    /\ wpc = [w \in Workers |-> "unborn"]
    /\ wresp = [w \in Workers |-> None]
    /\ cursor = 0
    /\ netloc = None
    /\ header_seen = << >>
    /\ link_seen = << >>
    /\ assigned = << >>

Running(stage) == pc = stage /\ halt = "none"

\* "self.data.base_url = value"
AssignBaseUrl(value) ==
    /\ base_url'   = BaseUrlSetter(known_urls, value).base_url
    /\ known_urls' = BaseUrlSetter(known_urls, value).known_urls
    /\ assigned'   = Append(assigned, BaseUrlSetter(known_urls, value).base_url)

(***************************************************************************)
(* _parse_args, _validate_url                                              *)
(***************************************************************************)

\* no argument at all: _get_args calls _abort
ParseArgsMissing ==
    /\ Running("parse_args")
    /\ halt' = "SystemExit"
    /\ UNCHANGED <<pc, data, workers, dispatch, stages>>

\* arguments without --url: args.url is None and the setter's rstrip raises
ParseArgsNoUrl ==
    /\ Running("parse_args")
    /\ halt' = "AttributeError"
    /\ UNCHANGED <<pc, data, workers, dispatch, stages>>

ParseArgs(t, r) ==
    /\ Running("parse_args")
    /\ AssignBaseUrl(TargetUrls[t])
    /\ redirect' = r
    /\ pc' = After("parse_args")
    /\ UNCHANGED <<halt, responses, urls, info, workers, dispatch, stages>>

ValidateUrl ==
    /\ Running("validate_url")
    /\ IF HasHttpScheme(base_url)
       THEN UNCHANGED <<base_url, known_urls, assigned>>
       ELSE AssignBaseUrl(<<"http", ":", "/", "/">> \o base_url)
    /\ pc' = After("validate_url")
    /\ UNCHANGED <<halt, redirect, responses, urls, info, workers, dispatch, stages>>

(***************************************************************************)
(* _create_threads_for_requests                                            *)
(***************************************************************************)

\* one pass of the first loop: create, append and start a thread
StartThread ==
    /\ Running("create_threads")
    /\ threads < Len(USER_AGENTS)
    /\ threads' = threads + 1
    /\ wpc' = [wpc EXCEPT ![threads + 1] = "get"]
    /\ pc' = IF threads + 1 = Len(USER_AGENTS) THEN "join_threads" ELSE pc
    /\ UNCHANGED <<halt, data, lock, wresp, joined, stages>>

\* a second loop that waits for the last started thread only
JoinLastOnly ==
    /\ Running("join_threads")
    /\ joined < threads
    /\ Joined(wpc[threads])
    /\ joined' = threads
    /\ pc' = After("create_threads")
    /\ UNCHANGED <<halt, data, workers, threads, stages>>

\* one pass of the second loop: t.join() returns
JoinThread ==
    /\ Running("join_threads")
    /\ joined < threads
    /\ Joined(wpc[joined + 1])
    /\ joined' = joined + 1
    /\ pc' = IF joined + 1 = threads THEN After("create_threads") ELSE pc
    /\ UNCHANGED <<halt, data, workers, threads, stages>>

(***************************************************************************)
(* _make_request, run by worker w                                          *)
(***************************************************************************)

\* get raises (connection error, timeout, invalid url): the except clause ends the run
GetRaises(w) ==
    /\ wpc[w] = "get"
    /\ wpc' = [wpc EXCEPT ![w] = "done"]
    /\ UNCHANGED <<pc, halt, data, lock, wresp, dispatch, stages>>

\* get returns the c-th page, for the request that carries USER_AGENTS[w]
GetReturns(w, c) ==
    /\ wpc[w] = "get"
    /\ ~Followed(redirect, CannedResponses[c])
    /\ wresp' = [wresp EXCEPT ![w] =
                    [user        |-> USER_AGENTS[w],
                     url         |-> CannedResponses[c].url,
                     status_code |-> CannedResponses[c].status_code,
                     headers     |-> CannedResponses[c].headers,
                     body        |-> CannedResponses[c].body]]
    /\ wpc' = [wpc EXCEPT ![w] = "raise_for_status"]
    /\ UNCHANGED <<pc, halt, data, lock, dispatch, stages>>

RaiseForStatus(w) ==
    /\ wpc[w] = "raise_for_status"
    /\ wpc' = [wpc EXCEPT ![w] =
                  IF RaisesForStatus(wresp[w].status_code) THEN "done" ELSE "acquire"]
    /\ UNCHANGED <<pc, halt, data, lock, wresp, dispatch, stages>>

\* the with block entered without taking the lock
AcquireNothing(w) ==
    /\ wpc[w] = "acquire"
    /\ wpc' = [wpc EXCEPT ![w] = "append"]
    /\ UNCHANGED <<pc, halt, data, lock, wresp, dispatch, stages>>

\* add_response: "with self._lock" is entered
Acquire(w) ==
    /\ wpc[w] = "acquire"
    /\ lock = Free
    /\ lock' = w
    /\ wpc' = [wpc EXCEPT ![w] = "append"]
    /\ UNCHANGED <<pc, halt, data, wresp, dispatch, stages>>

\* add_response: the append
AppendStep(w) ==
    /\ wpc[w] = "append"
    /\ responses' = AppendResponse(responses, wresp[w])
    /\ wpc' = [wpc EXCEPT ![w] = "release"]
    /\ UNCHANGED <<pc, halt, base_url, known_urls, assigned, redirect, urls, info,
                   lock, wresp, dispatch, stages>>

\* a worker that returns without leaving the with block
ReleaseKeepsLock(w) ==
    /\ wpc[w] = "release"
    /\ wpc' = [wpc EXCEPT ![w] = "done"]
    /\ UNCHANGED <<pc, halt, data, lock, wresp, dispatch, stages>>

\* add_response: the with block is left, _make_request returns
Release(w) ==
    /\ wpc[w] = "release"
    /\ lock' = Free
    /\ wpc' = [wpc EXCEPT ![w] = "done"]
    /\ UNCHANGED <<pc, halt, data, wresp, dispatch, stages>>

(***************************************************************************)
(* _update_base_url                                                        *)
(***************************************************************************)

UpdateBaseUrlOff ==
    /\ Running("update_base_url")
    /\ RedirectOff(redirect)
    /\ pc' = After("update_base_url")
    /\ UNCHANGED <<halt, data, workers, dispatch, stages>>

\* more than one final url: _abort
UpdateBaseUrlAbort ==
    /\ Running("update_base_url")
    /\ ~RedirectOff(redirect)
    /\ Conflict(FinalUrls(responses))
    /\ halt' = "SystemExit"
    /\ UNCHANGED <<pc, data, workers, dispatch, stages>>

\* no response: next(iter(urls)) on the empty set raises
UpdateBaseUrlEmpty ==
    /\ Running("update_base_url")
    /\ ~RedirectOff(redirect)
    /\ ~Conflict(FinalUrls(responses))
    /\ FinalUrls(responses) = {}
    /\ halt' = "StopIteration"
    /\ UNCHANGED <<pc, data, workers, dispatch, stages>>

UpdateBaseUrlCommit ==
    /\ Running("update_base_url")
    /\ ~RedirectOff(redirect)
    /\ ~Conflict(FinalUrls(responses))
    /\ FinalUrls(responses) # {}
    /\ AssignBaseUrl(CHOOSE u \in FinalUrls(responses) : TRUE)
    /\ pc' = After("update_base_url")
    /\ UNCHANGED <<halt, redirect, responses, urls, info, workers, dispatch, stages>>

(***************************************************************************)
(* _analyze_headers: HeaderSniffer.__enter__                               *)
(***************************************************************************)

HeaderSnifferStep ==
    /\ Running("analyze_headers")
    /\ cursor < Len(responses)
    /\ cursor' = cursor + 1
    /\ info' = HeaderPass(info, responses[cursor + 1])
    /\ header_seen' = Append(header_seen, responses[cursor + 1])
    /\ UNCHANGED <<pc, halt, base_url, known_urls, assigned, redirect, responses,
                   urls, workers, dispatch, netloc, link_seen>>

HeaderSnifferExit ==
    /\ Running("analyze_headers")
    /\ cursor >= Len(responses)
    /\ pc' = After("analyze_headers")
    /\ UNCHANGED <<halt, data, workers, dispatch, stages>>

(***************************************************************************)
(* _analyze_htmls: UrlSniffer.__init__ and __enter__                       *)
(***************************************************************************)

UrlSnifferInit ==
    /\ Running("analyze_htmls")
    /\ netloc' = urlparse(base_url, <<>>).netloc
    /\ pc' = "url_sniffer"
    /\ UNCHANGED <<halt, data, workers, dispatch, cursor, header_seen, link_seen>>

\* UrlSniffer(data).__enter__() as a whole, on a Data whose base_url is base
\* and whose responses are rs: the frontier and the known set it leaves
RECURSIVE UrlSnifferRun(_, _, _)
UrlSnifferRun(st, base, rs) ==
    IF rs = << >> THEN st
    ELSE UrlSnifferRun(
             _find_url_in_html(st, base, urlparse(base, <<>>).netloc,
                               Pop(rs).item.body),
             base, Pop(rs).rest)

\* the frontier and the known set after _find_url_in_html on the popped response
Found ==
    _find_url_in_html([urls |-> urls, known_urls |-> known_urls],
                      base_url, netloc, Pop(responses).item.body)

\* one pass of the while loop: pop a response and scan its body
UrlSnifferStep ==
    /\ Running("url_sniffer")
    /\ responses # << >>
    /\ responses' = Pop(responses).rest
    /\ urls' = Found.urls
    /\ known_urls' = Found.known_urls
    /\ link_seen' = Append(link_seen, Pop(responses).item)
    /\ UNCHANGED <<pc, halt, base_url, assigned, redirect, info, workers, dispatch,
                   cursor, netloc, header_seen>>

UrlSnifferExit ==
    /\ Running("url_sniffer")
    /\ responses = << >>
    /\ pc' = After("analyze_htmls")
    /\ UNCHANGED <<halt, data, workers, dispatch, stages>>

(***************************************************************************)
(* _display_results                                                        *)
(***************************************************************************)

\* max() of the empty info raises ValueError
DisplayResultsEmpty ==
    /\ Running("display_results")
    /\ DOMAIN info = {}
    /\ halt' = "ValueError"
    /\ UNCHANGED <<pc, data, workers, dispatch, stages>>

DisplayResults ==
    /\ Running("display_results")
    /\ DOMAIN info # {}
    /\ pc' = After("display_results")
    /\ UNCHANGED <<halt, data, workers, dispatch, stages>>

(***************************************************************************)
(* Specification                                                           *)
(***************************************************************************)

Next ==
    \/ ParseArgsMissing
    \/ ParseArgsNoUrl
    \/ \E t \in Targets, r \in BOOLEAN : ParseArgs(t, r)
    \/ ValidateUrl
    \/ StartThread
    \/ JoinThread
    \/ \E w \in Workers : GetRaises(w)
    \/ \E w \in Workers, c \in Canned : GetReturns(w, c)
    \/ \E w \in Workers : RaiseForStatus(w)
    \/ \E w \in Workers : Acquire(w)
    \/ \E w \in Workers : AppendStep(w)
    \/ \E w \in Workers : Release(w)
    \/ UpdateBaseUrlOff
    \/ UpdateBaseUrlAbort
    \/ UpdateBaseUrlEmpty
    \/ UpdateBaseUrlCommit
    \/ HeaderSnifferStep
    \/ HeaderSnifferExit
    \/ UrlSnifferInit
    \/ UrlSnifferStep
    \/ UrlSnifferExit
    \/ DisplayResultsEmpty
    \/ DisplayResults

Spec == Init /\ [][Next]_vars

\* the steps of the main thread inside _create_threads_for_requests
DispatchStep == StartThread \/ JoinThread

\* the steps of the thread that runs _make_request with USER_AGENTS[w]
WorkerStep(w) ==
    \/ GetRaises(w)
    \/ \E c \in Canned : GetReturns(w, c)
    \/ RaiseForStatus(w)
    \/ Acquire(w)
    \/ AppendStep(w)
    \/ Release(w)

\* The program under a fair scheduler and a transport that honours the
\* timeout: a thread that can take a step eventually takes one, and
\* requests.get eventually returns or raises.
FairSpec ==
    /\ Spec
    /\ WF_vars(DispatchStep)
    /\ \A w \in Workers : WF_vars(WorkerStep(w))

(***************************************************************************)
(* Vocabulary of the properties                                            *)
(***************************************************************************)

\* worker w has run to its end and its probe succeeded: get returned and
\* raise_for_status did not raise
Succeeded(w) ==
    /\ wpc[w] = "done"
    /\ wresp[w] # None
    /\ ~(400 <= wresp[w].status_code /\ wresp[w].status_code < 600)

\* worker w has run to its end and its probe failed
Failed(w) == wpc[w] = "done" /\ ~Succeeded(w)

\* _create_threads_for_requests has returned
DispatchReturned ==
    pc \notin {"parse_args", "validate_url", "create_threads", "join_threads"}

\* the link stage has run to its end
LinksDone == pc \in {"display_results", "done"}

\* how often item occurs in the sequence seq
Occurrences(seq, item) == Cardinality({i \in 1..Len(seq) : seq[i] = item})

\* the tokens of a string
Tokens(s) == {s[i] : i \in 1..Len(s)}

\* short is long without its trailing slashes
StrippedOf(short, long) ==
    /\ Len(short) <= Len(long)
    /\ SubSeq(long, 1, Len(short)) = short
    /\ \A i \in (Len(short) + 1)..Len(long) : long[i] = "/"
    /\ short = << >> \/ short[Len(short)] # "/"

\* s up to its first '#'
BeforeFragment(s) ==
    IF "#" \in Tokens(s)
    THEN SubSeq(s, 1, (CHOOSE i \in 1..Len(s) :
                           s[i] = "#" /\ \A j \in 1..(i - 1) : s[j] # "#") - 1)
    ELSE s

(***************************************************************************)
(* C1: once _create_threads_for_requests has returned, Data.responses      *)
(* holds exactly one entry for every probe that succeeded, that entry is   *)
(* the worker's whole response, and it holds nothing for a probe that      *)
(* failed, whatever the order of the workers' add_response calls.          *)
(***************************************************************************)
C1_OneEntryPerSuccess ==
    pc \in {"update_base_url", "analyze_headers", "analyze_htmls"} =>
        /\ \A w \in Workers :
              /\ Succeeded(w) => Occurrences(responses, wresp[w]) = 1
              /\ Failed(w) =>
                    \A i \in 1..Len(responses) : responses[i].user # USER_AGENTS[w]
        /\ Len(responses) = Cardinality({w \in Workers : Succeeded(w)})

\* dispatch has returned with two probes stored and one dropped
C1_Witness ==
    /\ pc = "update_base_url"
    /\ Len(responses) = 2
    /\ \E w \in Workers : Failed(w)
    /\ responses[1].user = USER_AGENTS[3]

(***************************************************************************)
(* C2: _create_threads_for_requests returns only after every worker it     *)
(* started has run to its end: whenever dispatch has returned all workers  *)
(* are done, and from then on Data.responses never grows.                  *)
(***************************************************************************)
C2_JoinBarrier ==
    /\ [](DispatchReturned => \A w \in Workers : wpc[w] = "done")
    /\ [][DispatchReturned => Len(responses') <= Len(responses)]_vars

\* dispatch has returned after all three workers stored a response
C2_Witness ==
    /\ pc = "update_base_url"
    /\ Len(responses) = Len(USER_AGENTS)
    /\ \A w \in Workers : wpc[w] = "done"

(***************************************************************************)
(* C3: when every probe has failed, for either setting of the redirect     *)
(* flag, _update_base_url, HeaderSniffer and UrlSniffer run to their end   *)
(* without raising or aborting and leave Data.info and Data.urls empty.    *)
(***************************************************************************)
C3_EmptyRunCompletes ==
    (DispatchReturned /\ \A w \in Workers : Failed(w)) =>
        /\ halt = "none" \/ pc = "display_results"
        /\ DOMAIN info = {}
        /\ urls = {}

(***************************************************************************)
(* C4: with redirect-following on, when the successful probes ended at     *)
(* more than one final url, the run stops in _update_base_url: base_url    *)
(* is not rewritten, neither the header stage nor the link stage runs,     *)
(* and Data.info and Data.urls stay empty.                                 *)
(***************************************************************************)
RedirectConflict ==
    /\ DispatchReturned
    /\ redirect
    /\ Cardinality({wresp[w].url : w \in {v \in Workers : Succeeded(v)}}) > 1

C4_ConflictAborts ==
    /\ [](RedirectConflict =>
            /\ pc = "update_base_url"
            /\ header_seen = << >> /\ link_seen = << >>
            /\ DOMAIN info = {} /\ urls = {})
    /\ [][RedirectConflict =>
            /\ base_url' = base_url
            /\ halt' \in {"none", "SystemExit"}]_vars

\* the run was aborted on two probes that ended at different urls
C4_Witness ==
    /\ RedirectConflict
    /\ halt = "SystemExit"
    /\ Len(responses) = 2

(***************************************************************************)
(* C5: with redirect-following on, when the responses all carry the same   *)
(* final url, _update_base_url returns without error and base_url is that  *)
(* url without its trailing slash.                                         *)
(***************************************************************************)
C5_AgreedUrlCommitted ==
    [][(/\ Running("update_base_url")
        /\ redirect
        /\ responses # << >>
        /\ \A i \in 1..Len(responses) : responses[i].url = responses[1].url)
       => /\ pc' = "analyze_headers"
          /\ halt' = "none"
          /\ StrippedOf(base_url', responses[1].url)]_vars

\* every probe ended at http://example.com/ and base_url is http://example.com
C5_Witness ==
    /\ pc = "analyze_headers"
    /\ redirect
    /\ Len(responses) = Len(USER_AGENTS)
    /\ \A i \in 1..Len(responses) : responses[i].url = UrlRoot
    /\ base_url = <<"http", ":", "/", "/", "example.com">>
    /\ Len(assigned) = 3

(***************************************************************************)
(* C6: with redirect-following off, _update_base_url changes none of       *)
(* base_url, known_urls, responses, info and urls, and raises nothing,     *)
(* whatever final urls the responses carry.                                *)
(***************************************************************************)
C6_NoRedirectNoOp ==
    [][(Running("update_base_url") /\ ~redirect)
       => /\ UNCHANGED <<base_url, known_urls, responses, info, urls>>
          /\ halt' = "none"]_vars

\* _update_base_url has returned with the flag off although the responses
\* carry two final urls, one of them not the target
C6_Witness ==
    /\ pc = "analyze_headers"
    /\ ~redirect
    /\ Cardinality({responses[i].url : i \in 1..Len(responses)}) = 2
    /\ \E i \in 1..Len(responses) : ~StrippedOf(base_url, responses[i].url)

(***************************************************************************)
(* C7: every response that dispatch left in Data.responses is handled      *)
(* exactly once by the loop of HeaderSniffer.__enter__ and exactly once by *)
(* the loop of UrlSniffer.__enter__, and neither loop handles anything     *)
(* else: the header stage hides no response from the link stage.           *)
(***************************************************************************)
C7_EachResponseOncePerStage ==
    LinksDone =>
        /\ \A w \in {v \in Workers : Succeeded(v)} :
              /\ Occurrences(header_seen, wresp[w]) = 1
              /\ Occurrences(link_seen, wresp[w]) = 1
        /\ Len(header_seen) = Cardinality({v \in Workers : Succeeded(v)})
        /\ Len(link_seen) = Cardinality({v \in Workers : Succeeded(v)})

\* both stages have run over three responses
C7_Witness ==
    /\ LinksDone
    /\ Len(header_seen) = Len(USER_AGENTS)
    /\ Len(link_seen) = Len(USER_AGENTS)

(***************************************************************************)
(* C8: every url of the frontier Data.urls has the netloc of the current   *)
(* base_url and holds no fragment, whatever the attribute values of the    *)
(* bodies are, values with an empty netloc (mailto:) included.             *)
(***************************************************************************)
C8_FrontierSameOrigin ==
    \A u \in urls :
        /\ urlparse(u, <<>>).netloc = urlparse(base_url, <<>>).netloc
        /\ "#" \notin Tokens(u)

(***************************************************************************)
(* C9: after the link stage, for every non-empty value of a table tag's    *)
(* attribute in a response body that resolves to a url with the target's   *)
(* netloc, that url without its fragment is in Data.urls.                  *)
(***************************************************************************)
\* the urls that the values of the table tags' attributes resolve to, over
\* the bodies of the responses dispatch stored
ResolvedLinks ==
    UNION {{urljoin(base_url, wresp[w].body[i].attrs[t[2]]) :
               i \in {k \in 1..Len(wresp[w].body) :
                         /\ wresp[w].body[k].tag = t[1]
                         /\ t[2] \in DOMAIN wresp[w].body[k].attrs
                         /\ wresp[w].body[k].attrs[t[2]] # << >>}} :
           w \in {v \in Workers : Succeeded(v)},
           t \in {TAGS_AND_ATTRIBUTES[k] : k \in 1..Len(TAGS_AND_ATTRIBUTES)}}

\* those of them that have the target's netloc
SameOriginLinks ==
    {u \in ResolvedLinks :
        urlparse(u, <<>>).netloc = urlparse(base_url, <<>>).netloc}

C9_NoSameOriginLinkLost ==
    LinksDone => \A u \in SameOriginLinks : BeforeFragment(u) \in urls

\* C9 as amended: the url without its fragment and without its trailing
\* slashes is in Data.known_urls, and it is in Data.urls unless it is a
\* value base_url has been assigned
C9_SameOriginLinkKnown ==
    LinksDone =>
        \A u \in SameOriginLinks :
            /\ RStripSlash(BeforeFragment(u)) \in known_urls
            /\ RStripSlash(BeforeFragment(u)) \in urls \cup Tokens(assigned)

\* a link to the target itself, one with a fragment and one with a trailing
\* slash have been extracted
C9_Witness ==
    /\ LinksDone
    /\ base_url \o <<"/">> \in SameOriginLinks
    /\ \E u \in SameOriginLinks : "#" \in Tokens(u) /\ BeforeFragment(u) \notin Tokens(assigned)
    /\ \E u \in SameOriginLinks : u # base_url \o <<"/">> /\ u[Len(u)] = "/"
    /\ urls # {}

(***************************************************************************)
(* C10: every key of Data.info is status_code or one of the nine names of  *)
(* the allow-list, whatever headers the responses carry.                   *)
(***************************************************************************)
C10_ReportKeysAllowed ==
    DOMAIN info \subseteq
        {"status_code", "Server", "X-Powered-By", "X-Generator", "Last-Modified",
         "X-AspNet-Version", "X-AspNetMvc-Version", "X-Runtime", "X-Frame-Options",
         "Location"}

\* the report was filled from responses that carry Set-Cookie and a
\* lower-case server header
C10_Witness ==
    /\ pc = "analyze_htmls"
    /\ "Server" \in DOMAIN info
    /\ \E i \in 1..Len(responses) : responses[i].headers[2][1] = "Set-Cookie"
    /\ \E i \in 1..Len(responses) : responses[i].headers[1][1] = "server"

(***************************************************************************)
(* C11: every step that changes Data.responses, Data.urls or               *)
(* Data.known_urls is made inside the critical section of Data._lock.      *)
(***************************************************************************)
\* no worker thread is alive: each is either not yet started or has ended
NoWorkerAlive == \A w \in Workers : wpc[w] \in {"unborn", "done"}

C11_EveryMutationLocked ==
    [][(responses' # responses \/ urls' # urls \/ known_urls' # known_urls)
       => lock # Free]_vars

\* C11 as amended: the append of add_response is made by the worker that
\* holds the lock; the pops of UrlSniffer and the inserts of add_url and of
\* the base_url setter are made with the lock free, while no worker is alive
C11_AppendLockedRestSingleThreaded ==
    [][/\ Len(responses') > Len(responses)
          => /\ lock \in Workers
             /\ wpc[lock] = "append"
             /\ responses' = Append(responses, wresp[lock])
       /\ (Len(responses') < Len(responses) \/ urls' # urls
           \/ known_urls' # known_urls)
          => lock = Free /\ NoWorkerAlive]_vars

\* three workers have appended under the lock, and the link stage has then
\* popped all three responses and filled the frontier with the lock free
C11_Witness ==
    /\ LinksDone
    /\ Len(link_seen) = Len(USER_AGENTS)
    /\ responses = << >>
    /\ urls # {}
    /\ lock = Free

(***************************************************************************)
(* C12: the stages of a run execute one after the other in the order       *)
(* dispatch, redirect reconciliation, header fingerprinting, link          *)
(* extraction, hand-off, each starting only when the one before it has     *)
(* finished, so the link stage resolves and filters against the base_url   *)
(* that redirect reconciliation committed.                                 *)
(***************************************************************************)
\* the place of a value of pc in the order of the claim
Rank(stage) ==
    CASE stage = "parse_args"      -> 1
      [] stage = "validate_url"    -> 2
      [] stage = "create_threads"  -> 3
      [] stage = "join_threads"    -> 4
      [] stage = "update_base_url" -> 5
      [] stage = "analyze_headers" -> 6
      [] stage = "analyze_htmls"   -> 7
      [] stage = "url_sniffer"     -> 8
      [] stage = "display_results" -> 9
      [] stage = "done"            -> 10

C12_StagesInOrder ==
    /\ [][Rank(pc') = Rank(pc) \/ Rank(pc') = Rank(pc) + 1]_vars
    /\ [](header_seen # << >> => Rank(pc) >= 6 /\ NoWorkerAlive)
    /\ [](Rank(pc) >= 7 => Len(header_seen) = Len(responses) + Len(link_seen))
    /\ [](pc = "url_sniffer" =>
            /\ base_url = assigned[Len(assigned)]
            /\ netloc = urlparse(base_url, <<>>).netloc
            /\ redirect => \E w \in Workers :
                               Succeeded(w) /\ StrippedOf(base_url, wresp[w].url))
    /\ [][urls' # urls =>
            /\ pc = "url_sniffer"
            /\ UNCHANGED <<base_url, netloc>>]_vars

\* the link stage has filled the frontier against a base_url that redirect
\* reconciliation moved from http://example.com to http://example.com/home
C12_Witness ==
    /\ pc = "display_results"
    /\ redirect
    /\ Len(assigned) = 3
    /\ assigned[2] # assigned[3]
    /\ base_url = assigned[3]
    /\ urls # {}

(***************************************************************************)
(* C13: once probing has started base_url is rewritten at most once, by    *)
(* _update_base_url only and never while a worker thread is alive; the     *)
(* header stage, the link stage and the display stage leave it unchanged.  *)
(***************************************************************************)
\* the first worker thread has been started
ProbingStarted == threads > 0

C13_BaseUrlRewrittenOnce ==
    /\ [][(ProbingStarted /\ (base_url' # base_url \/ assigned' # assigned))
          => /\ pc = "update_base_url"
             /\ pc' = "analyze_headers"
             /\ NoWorkerAlive]_vars
    /\ [](ProbingStarted =>
            Len(assigned) <= (IF HasHttpScheme(assigned[1]) THEN 1 ELSE 2) + 1)
    /\ [](base_url = None \/ base_url = assigned[Len(assigned)])

\* base_url was rewritten by _update_base_url and the run has ended
C13_Witness ==
    /\ pc = "done"
    /\ Len(assigned) = 3
    /\ base_url = assigned[3]
    /\ base_url # assigned[2]
    /\ urls # {}

(***************************************************************************)
(* C14: a probe whose response has a non-2xx status is dropped: every      *)
(* response held in Data.responses has a 2xx status, for both settings of  *)
(* the redirect flag.                                                      *)
(***************************************************************************)
C14_OnlySuccessStatusKept ==
    \A i \in 1..Len(responses) :
        200 <= responses[i].status_code /\ responses[i].status_code < 300

\* C14 as amended: a probe whose response has a 4xx or 5xx status is
\* dropped, every response held has a status outside 400..599; a 3xx answer
\* is kept
C14_NoErrorStatusKept ==
    /\ \A i \in 1..Len(responses) :
          responses[i].status_code < 400 \/ responses[i].status_code >= 600
    /\ \A w \in Workers :
          (/\ wpc[w] = "done"
           /\ wresp[w] # None
           /\ 300 <= wresp[w].status_code /\ wresp[w].status_code < 400
           /\ Rank(pc) <= 7)
          => Occurrences(responses, wresp[w]) = 1

\* with redirect-following off, dispatch has returned with a 301 answer
\* stored and a 404 answer dropped
C14_Witness ==
    /\ pc = "update_base_url"
    /\ ~redirect
    /\ \E i \in 1..Len(responses) : responses[i].status_code = 301
    /\ \E w \in Workers :
          /\ wpc[w] = "done"
          /\ wresp[w] # None
          /\ wresp[w].status_code = 404

(***************************************************************************)
(* C15: the link stage reads urls only from the ten tag/attribute pairs    *)
(* a.href, link.href, form.action, area.href, base.href, embed.src,        *)
(* frame.src, script.src, iframe.src, source.src: an attribute of an       *)
(* element with another tag contributes no url to the frontier.            *)
(***************************************************************************)
\* the urls, as add_url stores them, that the pairs of table yield over the
\* bodies of the responses dispatch stored
Yield(table) ==
    UNION {{RStripSlash(BeforeFragment(
                urljoin(base_url, wresp[w].body[i].attrs[t[2]]))) :
               i \in {k \in 1..Len(wresp[w].body) :
                         /\ wresp[w].body[k].tag = t[1]
                         /\ t[2] \in DOMAIN wresp[w].body[k].attrs
                         /\ wresp[w].body[k].attrs[t[2]] # << >>}} :
           w \in {v \in Workers : Succeeded(v)}, t \in table}

C15_OnlyTheTenPairs ==
    urls \subseteq
        Yield({<<"a", "href">>, <<"link", "href">>, <<"form", "action">>,
               <<"area", "href">>, <<"base", "href">>, <<"embed", "src">>,
               <<"frame", "src">>, <<"script", "src">>, <<"iframe", "src">>,
               <<"source", "src">>})

\* C15 as amended: the table has an eleventh pair, img.src
C15_OnlyTheElevenPairs ==
    urls \subseteq
        Yield({<<"a", "href">>, <<"img", "src">>, <<"link", "href">>,
               <<"form", "action">>, <<"area", "href">>, <<"base", "href">>,
               <<"embed", "src">>, <<"frame", "src">>, <<"script", "src">>,
               <<"iframe", "src">>, <<"source", "src">>})

\* the link stage has taken the url of an img and of a script and has
\* passed over the href of a div
C15_Witness ==
    /\ LinksDone
    /\ base_url \o <<"/", "logo.png">> \in urls
    /\ base_url \o <<"/", "lib", "/", "app.js">> \in urls
    /\ \E i \in 1..Len(link_seen) :
          \E k \in 1..Len(link_seen[i].body) : link_seen[i].body[k].tag = "div"
    /\ base_url \o <<"/", "hidden">> \notin urls

(***************************************************************************)
(* C16: link extraction is idempotent.  Once the link stage has run,       *)
(* running it again leaves Data.urls and Data.known_urls as they are, on   *)
(* the responses the first run left (none) as well as on the responses the *)
(* first run was given, and add_url of a url that is already known changes *)
(* nothing.                                                                *)
(***************************************************************************)
\* Data.urls and Data.known_urls as they are now
Frontier == [urls |-> urls, known_urls |-> known_urls]

C16_LinkStageIdempotent ==
    LinksDone =>
        /\ UrlSnifferRun(Frontier, base_url, responses) = Frontier
        /\ UrlSnifferRun(Frontier, base_url, header_seen) = Frontier
        /\ \A u \in known_urls : add_url(Frontier, u) = Frontier

\* the first run has put three urls into the frontier from two responses
C16_Witness ==
    /\ LinksDone
    /\ Len(header_seen) >= 2
    /\ Len(link_seen) = Len(header_seen)
    /\ Cardinality(urls) >= 3

(***************************************************************************)
(* C17: the accesses made without Data._lock are free of races.  Outside   *)
(* _create_threads_for_requests no worker thread is running, so the        *)
(* iteration of _update_base_url and HeaderSniffer, the pop of UrlSniffer, *)
(* add_url and the base_url setter, none of which takes the lock, run in   *)
(* states where the main thread is the only thread; while workers run, the *)
(* only access to a shared collection is the append of the worker holding  *)
(* the lock.                                                               *)
(***************************************************************************)
\* the main thread is inside _create_threads_for_requests
Dispatching == pc \in {"create_threads", "join_threads"}

\* a step of one of the accesses made without the lock
UnlockedAccess ==
    \/ base_url' # base_url
    \/ urls' # urls
    \/ known_urls' # known_urls
    \/ info' # info
    \/ Len(responses') < Len(responses)
    \/ header_seen' # header_seen
    \/ link_seen' # link_seen
    \/ (pc = "update_base_url" /\ (pc' # pc \/ halt' # halt))

C17_UnlockedAccessesRaceFree ==
    /\ [](~Dispatching => NoWorkerAlive /\ lock = Free)
    /\ [][UnlockedAccess => NoWorkerAlive /\ lock = Free]_vars
    /\ [](\A w \in Workers : wpc[w] \in {"append", "release"} => lock = w)
    /\ [][(responses' # responses /\ ~NoWorkerAlive)
             => lock \in Workers /\ wpc[lock] = "append"]_vars

\* every worker has run and finished, and the stages after the dispatch have
\* rewritten base_url, read the headers, popped a response and added a url
C17_Witness ==
    /\ pc = "url_sniffer"
    /\ threads = Len(USER_AGENTS)
    /\ \A w \in Workers : wpc[w] = "done"
    /\ Len(assigned) = 3
    /\ info # << >>
    /\ link_seen # << >>
    /\ urls # {}

(***************************************************************************)
(* C18: the dispatch always terminates.  Under a fair scheduler and a      *)
(* transport that honours the timeout, every started worker eventually     *)
(* finishes, whether its probe succeeds or fails; a finished worker never  *)
(* holds Data._lock; _create_threads_for_requests eventually returns; and  *)
(* no state inside the dispatch is stuck on the lock or on a join.         *)
(***************************************************************************)
C18_DispatchTerminates ==
    /\ \A w \in Workers : (wpc[w] # "unborn") ~> (wpc[w] = "done")
    /\ [](\A w \in Workers : wpc[w] = "done" => lock # w)
    /\ (pc = "create_threads") ~> (DispatchReturned /\ NoWorkerAlive /\ lock = Free)
    /\ [](Dispatching => ENABLED (DispatchStep \/ \E w \in Workers : WorkerStep(w)))

\* the dispatch has returned after one request raised, one response was
\* refused by raise_for_status and one was stored under the lock
C18_Witness ==
    /\ pc = "update_base_url"
    /\ joined = Len(USER_AGENTS)
    /\ lock = Free
    /\ \E w \in Workers : wpc[w] = "done" /\ wresp[w] = None
    /\ \E w \in Workers : Failed(w) /\ wresp[w] # None
    /\ \E w \in Workers : Succeeded(w)
    /\ Len(responses) = 1

(***************************************************************************)
(* C19: in every reachable state Data.known_urls is the disjoint union of  *)
(* Data.urls and the set of the values base_url has been assigned so far:  *)
(* urls is a subset of known_urls, no current or former base_url value is  *)
(* in urls, and known_urls never shrinks.                                  *)
(***************************************************************************)
\* every value base_url has held
EverBaseUrl == {assigned[i] : i \in 1..Len(assigned)}

C19_KnownIsFrontierPlusBaseUrls ==
    /\ [](known_urls = urls \cup EverBaseUrl)
    /\ [](urls \cap EverBaseUrl = {})
    /\ [](urls \subseteq known_urls)
    /\ [](base_url = None \/ base_url \in known_urls \ urls)
    /\ [][known_urls \subseteq known_urls']_vars

\* the raw argument, its http:// form and a redirect destination are all
\* known, a page links back to a former base_url, and the frontier holds
\* other urls
C19_Witness ==
    /\ LinksDone
    /\ Cardinality(EverBaseUrl) = 3
    /\ urls # {}
    /\ \E i \in 1..Len(link_seen) : \E j \in 1..Len(link_seen[i].body) :
           /\ link_seen[i].body[j].tag = "a"
           /\ "href" \in DOMAIN link_seen[i].body[j].attrs
           /\ RStripSlash(BeforeFragment(
                  urljoin(base_url, link_seen[i].body[j].attrs["href"])))
                  \in EverBaseUrl \ {base_url}

====
